---- MODULE Spec2Model ----
(***************************************************************************)
(* CacheableImage (src/image.js): a component that resolves a remote image *)
(* to a file of a local cache, downloading it on a miss.                   *)
(*                                                                         *)
(* Strings are sequences of one-character strings.  A file path            *)
(* DocumentDirectoryPath/<host>/<cacheKey> is the record of its host and   *)
(* cache key; a cache key <digest>.<ext> is the record of the digest and   *)
(* the extension (the digest has a fixed length, so the two parts of the   *)
(* string are recoverable from it).                                        *)
(***************************************************************************)
EXTENDS Integers, Sequences, FiniteSets, TLC

\* ------------------------------------------------------------------ bounds

\* Calls of checkImageCache (requests) in one behaviour.
MaxRequests == 2

\* Length of a query parameter's value in the key-derivation inputs.
MaxValLen == 1

\* ------------------------------------------------------------ key derivation

Names == {"v", "w"}

ValChars == {"a", "b"}

RECURSIVE StringsUpTo(_)
StringsUpTo(n) ==
    IF n = 0 THEN {<<>>}
    ELSE LET S == StringsUpTo(n - 1)
         IN  S \cup {Append(s, c) : s \in {t \in S : Len(t) = n - 1}, c \in ValChars}

Values == StringsUpTo(MaxValLen)

\* What String.prototype.concat appends for an object argument.
ObjectObject == <<"[object Object]">>

\* url.query of new URL(uri, null, true): the parsed query, an object with one
\* own property per parameter of the query string.
QueryObject(query) ==
    [k \in {query[i][1] : i \in DOMAIN query} |->
        LET i == CHOOSE j \in DOMAIN query : query[j][1] = k IN query[i][2]]

hasOwnProperty(obj, k) == k \in DOMAIN obj

\* The digest is uninterpreted: an injective function of its message.
SHA1(message) == [sha1 |-> message]

\* NamedParams iterating the query's own parameters instead of the listed names.
RECURSIVE AppendAll(_, _, _)
AppendAll(cacheable, keys, query) ==
    IF keys = <<>> THEN cacheable
    ELSE AppendAll(IF hasOwnProperty(query, Head(keys)) THEN cacheable \o query[Head(keys)]
                                                        ELSE cacheable,
                   Tail(keys), query)

NamedParamsAllKeys(cacheable, names, query) == AppendAll(cacheable, <<"v", "w">>, query)

\* NamedParams stopping after the first listed name.
NamedParamsFirstOnly(cacheable, names, query) ==
    IF names # <<>> /\ hasOwnProperty(query, Head(names))
    THEN cacheable \o query[Head(names)]
    ELSE cacheable

\* lines 134-144: the string that is hashed.
RECURSIVE NamedParams(_, _, _)
NamedParams(cacheable, names, query) ==
    IF names = <<>> THEN cacheable
    ELSE LET k == Head(names)
         IN  NamedParams(IF hasOwnProperty(query, k) THEN cacheable \o query[k]
                                                      ELSE cacheable,
                         Tail(names), query)

Cacheable(url, useQueryParamsInCacheKey) ==
    IF useQueryParamsInCacheKey.isArray
    THEN NamedParams(url.pathname, useQueryParamsInCacheKey.names, url.query)
    ELSE IF useQueryParamsInCacheKey.truthy
         THEN url.pathname \o ObjectObject
         ELSE url.pathname

\* line 147: pathname.replace(/.*\.(.*)/, '$1'): what follows the last dot,
\* the pathname itself when it has no dot.
LastDot(s) ==
    LET D == {i \in DOMAIN s : s[i] = "."}
    IN  IF D = {} THEN 0 ELSE CHOOSE i \in D : \A j \in D : j <= i

ExtensionType(pathname) ==
    IF LastDot(pathname) = 0 THEN pathname
    ELSE SubSeq(pathname, LastDot(pathname) + 1, Len(pathname))

\* line 148
CacheKey(url, useQueryParamsInCacheKey) ==
    LET type == ExtensionType(url.pathname)
    IN  [digest |-> SHA1(Cacheable(url, useQueryParamsInCacheKey)),
         ext    |-> IF Len(type) < Len(url.pathname) THEN type ELSE <<>>]

\* line 131: the parsed locator.
ParseURL(uri) ==
    [host |-> uri.host, pathname |-> uri.pathname, query |-> QueryObject(uri.query)]

\* lines 52-53
FilePath(cachePath, cacheKey) == [dir |-> cachePath, key |-> cacheKey]

\* lines 131-150: the arguments _processSource hands to checkImageCache.
DeriveKey(uri, useQueryParamsInCacheKey) ==
    LET url == ParseURL(uri)
    IN  [cachePath |-> url.host, cacheKey |-> CacheKey(url, useQueryParamsInCacheKey)]

DerivedPath(uri, policy) ==
    LET d == DeriveKey(uri, policy) IN FilePath(d.cachePath, d.cacheKey)

\* The values of the useQueryParamsInCacheKey prop.
PolicyNone == [isArray |-> FALSE, truthy |-> FALSE, names |-> <<>>]

PolicyAll == [isArray |-> FALSE, truthy |-> TRUE, names |-> <<>>]

PolicyNamed(names) == [isArray |-> TRUE, truthy |-> TRUE, names |-> names]

\* ------------------------------------------------------------- the component

\* The values of the source prop: objects, compared by identity (line 29).
\* Sources 1 and 3 carry the locators of two resources; source 4 is not an
\* object with a uri (a bundled asset).
UriA == [host |-> "h", pathname |-> <<"/", "a", ".", "j">>, query |-> <<<<"v", <<"a">>>>>>]

UriB == [host |-> "h", pathname |-> <<"/", "b">>, query |-> <<>>]

SourceObject ==
    [i \in {"s1", "s3", "s4"} |->
        CASE i = "s1" -> [hasUri |-> TRUE, uri |-> UriA]
          [] i = "s3" -> [hasUri |-> TRUE, uri |-> UriB]
          [] OTHER    -> [hasUri |-> FALSE, uri |-> UriB]]

Sources == DOMAIN SourceObject

Policies == {PolicyNamed(<<"v">>)}

Paths == {DerivedPath(SourceObject[s].uri, p) : s \in Sources, p \in Policies}

\* The paths at which a directory may be in the way when the component is made.
DirPaths == {DerivedPath(UriA, p) : p \in Policies}

Requests == 1 .. MaxRequests

VARIABLES
    props,         \* this.props: source, useQueryParamsInCacheKey
    state,         \* this.state
    phase,         \* "constructed", "mounted", "unmounted"
    subscribed,    \* the NetInfo 'change' listener is registered
    fetchPending,  \* NetInfo.isConnected.fetch() has not resolved yet
    connected,     \* the device's connectivity
    files,         \* the file system: what is at each path
    req,           \* the calls of checkImageCache and what each went through
    nreq,          \* how many calls were made
    stopped,       \* the job ids handed to RNFS.stopDownload
    kin, kout      \* key derivation applied to chosen inputs

vars == <<props, state, phase, subscribed, fetchPending, connected, files, req,
          nreq, stopped, kin, kout>>

compVars == <<props, state, phase, subscribed, fetchPending, connected, files, req,
              nreq, stopped>>

\* null, for cachedImagePath (a path p is <<p>>) and for jobId.
NullPath == <<>>

NullJob == 0

\* lines 18-25
InitialState ==
    [isRemote |-> FALSE, cachedImagePath |-> NullPath, downloading |-> FALSE,
     cacheable |-> TRUE, jobId |-> NullJob, networkAvailable |-> FALSE]

IdleRequest ==
    [pc |-> "idle", path |-> FilePath("", CacheKey(ParseURL(UriB), PolicyNone)),
     hit |-> "none", net |-> "none", mkdir |-> "none", job |-> "none",
     del |-> "none", result |-> "none"]

KIdle == [used |-> FALSE]

Init ==
    /\ props \in [source : Sources, useQueryParamsInCacheKey : Policies]
    /\ state = InitialState
    /\ phase = "constructed"
    /\ subscribed = FALSE
    /\ fetchPending = FALSE
    /\ connected \in BOOLEAN
    /\ files \in {f \in [Paths -> {"none", "complete", "dir"}] :
                      \A p \in Paths : f[p] = "dir" => p \in DirPaths}
    /\ req = [r \in Requests |-> IdleRequest]
    /\ nreq = 0
    /\ stopped = {}
    /\ kin = KIdle
    /\ kout = KIdle

\* this.setState(patch): the fields of patch replace those of this.state.
setState(patch) == state' = patch @@ state

Cached(filePath) == [cacheable |-> TRUE, cachedImagePath |-> <<filePath>>]

Unavailable == [cacheable |-> FALSE, cachedImagePath |-> NullPath]

\* lines 51-56: checkImageCache up to the call of RNFS.stat.
checkImageCache(cachePath, cacheKey) ==
    /\ nreq < MaxRequests
    /\ nreq' = nreq + 1
    /\ req' = [req EXCEPT ![nreq + 1] =
                  [IdleRequest EXCEPT !.pc = "stat", !.path = FilePath(cachePath, cacheKey)]]

\* lines 125-156
ProcessSource(source) ==
    IF SourceObject[source].hasUri
    THEN LET d == DeriveKey(SourceObject[source].uri, props.useQueryParamsInCacheKey)
         IN  /\ checkImageCache(d.cachePath, d.cacheKey)
             /\ setState([isRemote |-> TRUE])
    ELSE /\ setState([isRemote |-> FALSE])
         /\ UNCHANGED <<req, nreq>>

\* lines 158-166
componentWillMount ==
    /\ phase = "constructed"
    /\ phase' = "mounted"
    /\ subscribed' = TRUE
    /\ fetchPending' = TRUE
    /\ ProcessSource(props.source)
    /\ UNCHANGED <<props, connected, files, stopped, kin, kout>>

\* lines 161-163: the initial connectivity arrives.
NetInfoFetchResolve ==
    /\ fetchPending
    /\ fetchPending' = FALSE
    /\ setState([networkAvailable |-> connected])
    /\ UNCHANGED <<props, phase, subscribed, connected, files, req, nreq, stopped,
                   kin, kout>>

\* _handleConnectivityChange stopping the tracked job when the network goes down.
HandleConnectivityChangeAborts ==
    /\ subscribed
    /\ \E isConnected \in BOOLEAN :
          /\ connected' = isConnected
          /\ setState([networkAvailable |-> isConnected])
          /\ stopped' = IF ~isConnected /\ state.downloading /\ state.jobId # NullJob
                        THEN stopped \cup {state.jobId}
                        ELSE stopped
    /\ UNCHANGED <<props, phase, subscribed, fetchPending, files, req, nreq, kin, kout>>

\* lines 176-180: the connectivity changes and the listener is told.
HandleConnectivityChange ==
    /\ subscribed
    /\ \E isConnected \in BOOLEAN :
          /\ connected' = isConnected
          /\ setState([networkAvailable |-> isConnected])
    /\ UNCHANGED <<props, phase, subscribed, fetchPending, files, req, nreq, stopped,
                   kin, kout>>

\* lines 28-32
componentWillReceiveProps ==
    /\ phase = "mounted"
    /\ \E source \in Sources :
          /\ source # props.source
          /\ ProcessSource(source)
          /\ props' = [props EXCEPT !.source = source]
    /\ UNCHANGED <<phase, subscribed, fetchPending, connected, files, stopped, kin, kout>>

\* StatResolve consulting the network flag before it reports the hit.
StatResolveGated(r) ==
    /\ req[r].pc = "stat"
    /\ files[req[r].path] # "none"
    /\ IF files[req[r].path] = "dir"
       THEN /\ req' = [req EXCEPT ![r].pc = "done", ![r].hit = "notfile"]
            /\ UNCHANGED state
       ELSE IF state.networkAvailable
            THEN /\ req' = [req EXCEPT ![r].pc = "done", ![r].hit = "hit",
                                       ![r].result = "cached"]
                 /\ setState(Cached(req[r].path))
            ELSE /\ req' = [req EXCEPT ![r].pc = "done", ![r].hit = "hit",
                                       ![r].result = "unavailable"]
                 /\ setState(Unavailable)
    /\ UNCHANGED <<props, phase, subscribed, fetchPending, connected, files, nreq,
                   stopped, kin, kout>>

\* lines 57-62: stat resolves; a directory at the path changes nothing.
StatResolve(r) ==
    /\ req[r].pc = "stat"
    /\ files[req[r].path] # "none"
    /\ IF files[req[r].path] = "dir"
       THEN /\ req' = [req EXCEPT ![r].pc = "done", ![r].hit = "notfile"]
            /\ UNCHANGED state
       ELSE /\ req' = [req EXCEPT ![r].pc = "done", ![r].hit = "hit", ![r].result = "cached"]
            /\ setState(Cached(req[r].path))
    /\ UNCHANGED <<props, phase, subscribed, fetchPending, connected, files, nreq,
                   stopped, kin, kout>>

\* StatReject going on to mkdir without the network gate.
StatRejectUngated(r) ==
    /\ req[r].pc = "stat"
    /\ files[req[r].path] = "none"
    /\ req' = [req EXCEPT ![r].pc = "mkdir", ![r].hit = "miss",
                          ![r].net = IF state.networkAvailable THEN "up" ELSE "down",
                          ![r].mkdir = "called"]
    /\ UNCHANGED <<props, state, phase, subscribed, fetchPending, connected, files, nreq,
                   stopped, kin, kout>>

\* lines 63-77: stat rejects: nothing is at the path.
StatReject(r) ==
    /\ req[r].pc = "stat"
    /\ files[req[r].path] = "none"
    /\ IF ~state.networkAvailable
       THEN /\ req' = [req EXCEPT ![r].pc = "done", ![r].hit = "miss", ![r].net = "down",
                                  ![r].result = "unavailable"]
            /\ setState(Unavailable)
       ELSE /\ req' = [req EXCEPT ![r].pc = "mkdir", ![r].hit = "miss", ![r].net = "up",
                                  ![r].mkdir = "called"]
            /\ UNCHANGED state
    /\ UNCHANGED <<props, phase, subscribed, fetchPending, connected, files, nreq,
                   stopped, kin, kout>>

\* lines 78-96, 106-109: mkdir resolves.  With a previous cached path held, line
\* 82 calls this.deleteFilePath, which the class does not define: the TypeError
\* ends the handler before downloadFile and is caught at line 106.
MkdirResolve(r) ==
    /\ req[r].pc = "mkdir"
    /\ IF state.cacheable /\ state.cachedImagePath # NullPath
       THEN /\ req' = [req EXCEPT ![r].pc = "done", ![r].mkdir = "ok", ![r].del = "exists",
                                  ![r].result = "unavailable"]
            /\ setState(Unavailable)
       ELSE /\ req' = [req EXCEPT ![r].pc = "job", ![r].mkdir = "ok", ![r].job = "pending"]
            /\ UNCHANGED state
    /\ UNCHANGED <<props, phase, subscribed, fetchPending, connected, files, nreq,
                   stopped, kin, kout>>

\* lines 106-109: mkdir rejects.
MkdirReject(r) ==
    /\ req[r].pc = "mkdir"
    /\ req' = [req EXCEPT ![r].pc = "done", ![r].mkdir = "failed", ![r].del = "exists",
                          ![r].result = "unavailable"]
    /\ setState(Unavailable)
    /\ UNCHANGED <<props, phase, subscribed, fetchPending, connected, files, nreq,
                   stopped, kin, kout>>

\* lines 41-43: the transport reports that job r has begun.
imageDownloadBegin(r) ==
    /\ req[r].pc = "job"
    /\ req[r].job = "pending"
    /\ req' = [req EXCEPT ![r].job = "begun"]
    /\ setState([downloading |-> TRUE, jobId |-> r])
    /\ UNCHANGED <<props, phase, subscribed, fetchPending, connected, files, nreq,
                   stopped, kin, kout>>

\* imageDownloadProgress taking the full length for the end of the download.
imageDownloadProgressCaches(r) ==
    /\ req[r].pc = "job"
    /\ req[r].job = "begun"
    /\ files' = [files EXCEPT ![req[r].path] = "partial"]
    /\ \E all \in BOOLEAN :
          IF all
          THEN /\ req' = [req EXCEPT ![r].job = "written"]
               /\ setState([downloading |-> FALSE, jobId |-> NullJob] @@ Cached(req[r].path))
          ELSE UNCHANGED <<req, state>>
    /\ UNCHANGED <<props, phase, subscribed, fetchPending, connected, nreq, stopped,
                   kin, kout>>

\* lines 45-49: the transport has written bytes of job r to its file and reports
\* them; all is whether bytesWritten has reached contentLength.
imageDownloadProgress(r) ==
    /\ req[r].pc = "job"
    /\ req[r].job = "begun"
    /\ files' = [files EXCEPT ![req[r].path] = "partial"]
    /\ \E all \in BOOLEAN :
          IF all
          THEN /\ req' = [req EXCEPT ![r].job = "written"]
               /\ setState([downloading |-> FALSE, jobId |-> NullJob])
          ELSE UNCHANGED <<req, state>>
    /\ UNCHANGED <<props, phase, subscribed, fetchPending, connected, nreq, stopped,
                   kin, kout>>

\* DownloadResolve dropping the completion of a job that is not the latest.
DownloadResolveFresh(r) ==
    /\ req[r].pc = "job"
    /\ req[r].job \in {"begun", "written"}
    /\ files' = [files EXCEPT ![req[r].path] = "complete"]
    /\ req' = [req EXCEPT ![r].pc = "done", ![r].job = "ok", ![r].result = "cached"]
    /\ IF r = nreq THEN setState(Cached(req[r].path)) ELSE UNCHANGED state
    /\ UNCHANGED <<props, phase, subscribed, fetchPending, connected, nreq, stopped,
                   kin, kout>>

\* lines 97-99: job r terminates with success.
DownloadResolve(r) ==
    /\ req[r].pc = "job"
    /\ req[r].job \in {"begun", "written"}
    /\ files' = [files EXCEPT ![req[r].path] = "complete"]
    /\ req' = [req EXCEPT ![r].pc = "done", ![r].job = "ok", ![r].result = "cached"]
    /\ setState(Cached(req[r].path))
    /\ UNCHANGED <<props, phase, subscribed, fetchPending, connected, nreq, stopped,
                   kin, kout>>

\* lines 100-104: job r terminates with failure (an error, or stopped).
DownloadReject(r) ==
    /\ req[r].pc = "job"
    /\ req[r].job \in {"pending", "begun", "written"}
    /\ req' = [req EXCEPT ![r].pc = "done", ![r].job = "failed", ![r].del = "exists",
                          ![r].result = "unavailable"]
    /\ setState(Unavailable)
    /\ UNCHANGED <<props, phase, subscribed, fetchPending, connected, files, nreq,
                   stopped, kin, kout>>

\* lines 114-117: RNFS.exists of the _deleteFilePath that request r started.
DeleteExists(r) ==
    /\ req[r].del = "exists"
    /\ req' = [req EXCEPT ![r].del = IF files[req[r].path] # "none" THEN "unlink" ELSE "absent"]
    /\ UNCHANGED <<props, state, phase, subscribed, fetchPending, connected, files, nreq,
                   stopped, kin, kout>>

\* An unlink that removes nothing.
unlinkNothing(filePath) == files

\* RNFS.unlink(filepath): what is at the path is removed.
unlink(filePath) == [files EXCEPT ![filePath] = "none"]

\* lines 118-120: its RNFS.unlink; a rejection (nothing there any more) is swallowed.
DeleteUnlink(r) ==
    /\ req[r].del = "unlink"
    /\ req' = [req EXCEPT ![r].del = "unlinked"]
    /\ files' = unlink(req[r].path)
    /\ UNCHANGED <<props, state, phase, subscribed, fetchPending, connected, nreq,
                   stopped, kin, kout>>

\* lines 168-174
componentWillUnmount ==
    /\ phase = "mounted"
    /\ phase' = "unmounted"
    /\ subscribed' = FALSE
    /\ stopped' = IF state.downloading /\ state.jobId # NullJob
                  THEN stopped \cup {state.jobId}
                  ELSE stopped
    /\ UNCHANGED <<props, state, fetchPending, connected, files, req, nreq, kin, kout>>

Next ==
    \/ componentWillMount
    \/ NetInfoFetchResolve
    \/ HandleConnectivityChange
    \/ componentWillReceiveProps
    \/ componentWillUnmount
    \/ \E r \in Requests :
          \/ StatResolve(r)
          \/ StatReject(r)
          \/ MkdirResolve(r)
          \/ MkdirReject(r)
          \/ imageDownloadBegin(r)
          \/ imageDownloadProgress(r)
          \/ DownloadResolve(r)
          \/ DownloadReject(r)
          \/ DeleteExists(r)
          \/ DeleteUnlink(r)

Spec == Init /\ [][Next]_vars

\* ------------------------------------------- key derivation on chosen inputs

KHosts == {"g", "h"}

KPathnames == {<<"/", "a", ".", "j">>, <<"/", "b">>}

\* The query strings: each name absent, or present once with a value.
KParam(k) == {<<>>} \cup {<<<<k, v>>>> : v \in Values}

KQueries == {qv \o qw : qv \in KParam("v"), qw \in KParam("w")}

KPolicies == {PolicyNone, PolicyAll, PolicyNamed(<<"v">>), PolicyNamed(<<"v", "w">>)}

\* Two locators of one host and path, and a policy.
KInputs ==
    [used : {TRUE}, host : KHosts, pathname : KPathnames, query1 : KQueries,
     query2 : KQueries, policy : KPolicies]

KUri1 == [host |-> kin.host, pathname |-> kin.pathname, query |-> kin.query1]

KUri2 == [host |-> kin.host, pathname |-> kin.pathname, query |-> kin.query2]

KInit ==
    /\ props = [source |-> "s4", useQueryParamsInCacheKey |-> PolicyNone]
    /\ state = InitialState
    /\ phase = "constructed"
    /\ subscribed = FALSE
    /\ fetchPending = FALSE
    /\ connected = FALSE
    /\ files = [p \in Paths |-> "none"]
    /\ req = [r \in Requests |-> IdleRequest]
    /\ nreq = 0
    /\ stopped = {}
    /\ kin \in KInputs
    /\ kout = KIdle

\* lines 131-150 applied to both locators.
KDerive ==
    /\ ~kout.used
    /\ kout' = [used |-> TRUE,
                k1   |-> DeriveKey(KUri1, kin.policy),
                k2   |-> DeriveKey(KUri2, kin.policy)]
    /\ UNCHANGED <<compVars, kin>>

KNext == KDerive

SpecKey == KInit /\ [][KNext]_vars


\* ------------------------------------------------------------------ claims

Range(s) == {s[i] : i \in DOMAIN s}

\* What line 138 appends for parameter k: its value, nothing when it is absent.
Appended(query, k) == IF hasOwnProperty(query, k) THEN query[k] ELSE <<>>

\* The listed parameters are the same in both queries: each absent in both, or
\* present in both with one value.
SameNamed(q1, q2, names) ==
    \A k \in Range(names) :
        /\ hasOwnProperty(QueryObject(q1), k) <=> hasOwnProperty(QueryObject(q2), k)
        /\ Appended(QueryObject(q1), k) = Appended(QueryObject(q2), k)

KIdentity1 == kout.k1.cacheKey.digest.sha1

KIdentity2 == kout.k2.cacheKey.digest.sha1

\* C9: under a named policy, two locators of one host and path whose queries
\* differ only in parameters that are not listed derive the same storage
\* directory and the same cache key.
C9_UnlistedParamsIgnored ==
    (kout.used /\ kin.policy.isArray /\ SameNamed(kin.query1, kin.query2, kin.policy.names))
        => kout.k1 = kout.k2

C9_Witness ==
    /\ kout.used
    /\ kin.policy = PolicyNamed(<<"v">>)
    /\ kin.query1 = <<<<"v", <<"a">>>>>>
    /\ kin.query2 = <<<<"v", <<"a">>>>, <<"w", <<"b">>>>>>
    /\ kout.k1 = kout.k2

\* C10 as claimed: under a named policy, two locators of one path that differ in
\* a listed parameter (another value, or present with an empty value against
\* absent) have different identity strings.
C10_ListedParamsDistinguish ==
    (kout.used /\ kin.policy.isArray /\ ~SameNamed(kin.query1, kin.query2, kin.policy.names))
        => KIdentity1 # KIdentity2

\* Exactly one listed parameter has different appended values in the two queries.
OneAppendedDiffers(q1, q2, names) ==
    \E k \in Range(names) :
        /\ Appended(QueryObject(q1), k) # Appended(QueryObject(q2), k)
        /\ \A j \in Range(names) \ {k} :
              Appended(QueryObject(q1), j) = Appended(QueryObject(q2), j)

\* C10 as amended: under a named policy, two locators of one path have different
\* identity strings when exactly one listed parameter differs between them by what
\* it appends (two different values, or a non-empty value against absent), and
\* the same identity string when every listed parameter appends the same (so a
\* listed parameter present with an empty value counts as absent).
C10_AppendedValuesDistinguish ==
    (kout.used /\ kin.policy.isArray) =>
        /\ OneAppendedDiffers(kin.query1, kin.query2, kin.policy.names)
              => KIdentity1 # KIdentity2
        /\ (\A k \in Range(kin.policy.names) :
               Appended(QueryObject(kin.query1), k) = Appended(QueryObject(kin.query2), k))
              => KIdentity1 = KIdentity2

C10_Witness ==
    /\ kout.used
    /\ kin.policy = PolicyNamed(<<"v", "w">>)
    /\ kin.query1 = <<<<"w", <<"b">>>>>>
    /\ kin.query2 = <<<<"v", <<"a">>>>, <<"w", <<"b">>>>>>
    /\ KIdentity1 # KIdentity2


\* What stat finds at the path of request r.
IsFile(r) == files[req[r].path] \in {"partial", "complete"}

\* Request r has its answer from stat in this step.
StatAnswered(r) == req[r].pc = "stat" /\ req'[r].pc # "stat"

NeverWentOn(r) == req[r].mkdir = "none" /\ req[r].job = "none"

\* C1: a request whose path is a regular file when stat answers becomes
\* Cached(that path) whatever the network flag is, and neither mkdir nor
\* downloadFile is ever called for it.
C1_CacheHit ==
    /\ [][\A r \in Requests :
            (StatAnswered(r) /\ IsFile(r)) =>
                /\ state'.cacheable
                /\ state'.cachedImagePath = <<req[r].path>>
                /\ req'[r].hit = "hit"
                /\ req'[r].pc = "done"]_vars
    /\ [](\A r \in Requests : req[r].hit = "hit" => NeverWentOn(r))

C1_Witness ==
    \E r \in Requests :
        /\ req[r].hit = "hit"
        /\ state.cacheable
        /\ state.cachedImagePath = <<req[r].path>>
        /\ ~state.networkAvailable

C3_MissOnlineCached ==
    [][\A r \in Requests :
          (req[r].pc # "done" /\ req'[r].pc = "done" /\ req'[r].hit = "miss"
              /\ req'[r].net = "up" /\ req'[r].mkdir = "ok" /\ req'[r].job # "failed")
              => /\ state'.cacheable
                 /\ state'.cachedImagePath = <<req[r].path>>
                 /\ files'[req[r].path] # "none"]_vars

\* The _deleteFilePath of request r has run to its end.
CleanedUp(r) == req[r].del \in {"absent", "unlinked"}

\* C4: when the cleanup of a failed download ends nothing is at the
\* destination path, and nothing is there afterwards for as long as no other
\* job has been started for the same path.
C4_FailedLeavesNoFile ==
    /\ [][\A r \in Requests :
            (req[r].job = "failed" /\ ~CleanedUp(r) /\ CleanedUp(r)')
                => files'[req[r].path] = "none"]_vars
    /\ [](\A r \in Requests :
            (req[r].job = "failed" /\ CleanedUp(r)
                /\ \A o \in Requests \ {r} :
                      req[o].path = req[r].path => req[o].job = "none")
                => files[req[r].path] = "none")

C4_Witness ==
    \E r \in Requests :
        /\ req[r].job = "failed"
        /\ req[r].del = "unlinked"
        /\ files[req[r].path] = "none"

\* The job of request r has begun and has not terminated.
InProgress(r) == req[r].pc = "job" /\ req[r].job \in {"begun", "written"}

\* C5: at most one download job is in progress.
C5_OneActiveJob == Cardinality({r \in Requests : InProgress(r)}) <= 1

IsCached == state.isRemote /\ state.cacheable /\ state.cachedImagePath # NullPath

\* C6: while the resolution is Cached(path), the file at path is one that a
\* download job completed with success, never one partly written or gone.
C6_CachedIsComplete == IsCached => files[state.cachedImagePath[1]] = "complete"

\* C7: once a request for another cache key has settled as Cached, the file
\* of the entry that the request before it cached has been deleted.
C7_SupersededDeleted ==
    \A r \in Requests \ {1} :
        (req[r].result = "cached" /\ req[r - 1].result = "cached"
            /\ req[r].path # req[r - 1].path
            /\ \A o \in Requests :
                  /\ req[o].pc \in {"idle", "done"}
                  /\ req[o].del \in {"none", "absent", "unlinked"})
            => files[req[r - 1].path] = "none"

\* C8: teardown removes the connectivity listener and hands every job in
\* progress to stopDownload.
C8_TeardownCancels ==
    [][(phase = "mounted" /\ phase' = "unmounted") =>
          /\ ~subscribed'
          /\ \A r \in Requests : InProgress(r) => r \in stopped']_vars


\* The query string of a locator as it is written: ?k=v&k=v, empty for no
\* parameter.
RECURSIVE JoinParams(_)
JoinParams(query) ==
    IF query = <<>> THEN <<>>
    ELSE (IF Len(query) > 1 THEN JoinParams(SubSeq(query, 1, Len(query) - 1)) \o <<"&">>
                            ELSE <<"?">>)
         \o <<query[Len(query)][1], "=">> \o query[Len(query)][2]

\* C11: under the policy "all" the identity string is the path followed by the
\* full query string, so locators of one path with different query strings have
\* different identity strings.
C11_AllPolicyAppendsQuery ==
    (kout.used /\ kin.policy = PolicyAll) =>
        /\ KIdentity1 = kin.pathname \o JoinParams(kin.query1)
        /\ kin.query1 # kin.query2 => KIdentity1 # KIdentity2

\* C12: when mkdir resolves for a request while the coordinator holds a cached
\* path, the old file's deletion is started and a download job to the request's
\* path is started.
C12_SupersedeThenDownload ==
    [][\A r \in Requests :
          (req[r].pc = "mkdir" /\ req'[r].mkdir = "ok"
              /\ state.cacheable /\ state.cachedImagePath # NullPath)
              => (req'[r].pc = "job" /\ req'[r].job = "pending")]_vars


\* The path of the resource that the props ask for now.
DesiredPath == DerivedPath(SourceObject[props.source].uri, props.useQueryParamsInCacheKey)

\* Request r was followed by another request: its job is superseded.
Superseded(r) == r < nreq

\* C13: the completion of a superseded job is processed like any other: its
\* success makes the resolution Cached(its path) and its failure makes it
\* Unavailable, whatever the later request has set.
C13_StaleCompletionProcessed ==
    [][\A r \in Requests :
          (Superseded(r) /\ req[r].pc = "job" /\ req'[r].pc = "done") =>
              /\ req'[r].job = "ok" =>
                    (state'.cacheable /\ state'.cachedImagePath = <<req[r].path>>)
              /\ req'[r].job = "failed" =>
                    (~state'.cacheable /\ state'.cachedImagePath = NullPath)]_vars

\* The desired resource is that of request 2, whose job succeeded, and the
\* resolution is Cached(path of request 1), whose job ended after it.
C13_Witness ==
    /\ nreq = 2
    /\ req[1].job = "ok"
    /\ req[2].job = "ok"
    /\ req[1].path # req[2].path
    /\ SourceObject[props.source].hasUri
    /\ DesiredPath = req[2].path
    /\ IsCached
    /\ state.cachedImagePath = <<req[1].path>>

\* C14: when a job fails and the resolution becomes Unavailable, nothing is
\* left at the job's destination path.
C14_DeletedBeforeUnavailable ==
    [][\A r \in Requests :
          (req[r].pc = "job" /\ req'[r].job = "failed")
              => files'[req[r].path] = "none"]_vars

\* C15: a progress report of the full length clears the downloading flag and
\* the job id and leaves cacheable and cachedImagePath alone; a path becomes the
\* cached path only in the step in which stat finds a file there or a job for
\* it ends with success.
C15_ProgressDoesNotCache ==
    /\ [][\A r \in Requests :
            (req[r].job = "begun" /\ req'[r].job = "written") =>
                /\ ~state'.downloading
                /\ state'.jobId = NullJob
                /\ state'.cacheable = state.cacheable
                /\ state'.cachedImagePath = state.cachedImagePath]_vars
    /\ [][(state'.cachedImagePath # state.cachedImagePath
             /\ state'.cachedImagePath # NullPath) =>
             \E r \in Requests :
                 /\ req[r].result # "cached"
                 /\ req'[r].result = "cached"
                 /\ req'[r].hit = "hit" \/ req'[r].job = "ok"
                 /\ state'.cachedImagePath = <<req[r].path>>]_vars

C15_Witness ==
    \E r \in Requests :
        /\ req[r].job = "written"
        /\ req[r].pc = "job"
        /\ ~state.downloading
        /\ state.jobId = NullJob
        /\ state.cachedImagePath = NullPath


\* The step is a connectivity notification: the connectivity changes, or the
\* network flag changes and not by the initial fetch.
ConnectivityNotified ==
    \/ connected' # connected
    \/ state'.networkAvailable # state.networkAvailable /\ fetchPending' = fetchPending

\* C16: a connectivity notification changes the network flag only: the
\* resolution, the downloading flag, the job id, the file system, the requests
\* and their jobs, and the jobs handed to stopDownload stay as they are.
C16_ConnectivityOnlyFlag ==
    [][ConnectivityNotified =>
          /\ state' = [state EXCEPT !.networkAvailable = connected']
          /\ UNCHANGED <<files, req, nreq, stopped, props, phase>>]_vars

\* The network flag came up by a notification (the initial fetch is still
\* pending) after a request was resolved Unavailable for want of network, and
\* nothing is retried.
C16_Witness ==
    /\ fetchPending
    /\ state.networkAvailable
    /\ ~state.cacheable
    /\ state.cachedImagePath = NullPath
    /\ \E r \in Requests : req[r].net = "down"
    /\ \A r \in Requests : req[r].pc \in {"idle", "done"}

\* C17: a request whose path is a directory when stat answers is resolved by
\* the miss steps: Unavailable with the network flag down, mkdir otherwise.
C17_DirectoryIsMiss ==
    [][\A r \in Requests :
          (StatAnswered(r) /\ files[req[r].path] = "dir") =>
              IF state.networkAvailable
              THEN req'[r].pc = "mkdir"
              ELSE ~state'.cacheable /\ state'.cachedImagePath = NullPath]_vars

\* C18: no request is resolved Unavailable by the network gate while the device
\* is connected and the initial connectivity fetch is still pending.
C18_InitialConnectivityPrimed ==
    [][\A r \in Requests :
          (StatAnswered(r) /\ req'[r].net = "down") => ~(connected /\ fetchPending)]_vars

\* C19: while the coordinator is remote and Cached(path), path is the path
\* derived from the source the props hold.
C19_CachedIsDesired == IsCached => state.cachedImagePath = <<DesiredPath>>

\* C20: while downloading is set with a job id, the job of that id has begun
\* and has not terminated.
C20_TrackedJobIsLive ==
    (state.downloading /\ state.jobId # NullJob) => InProgress(state.jobId)

====
